---------------------------- MODULE Spec2Model ----------------------------
(***************************************************************************)
(* A model of the publishing scripts of sparky-research:                   *)
(*   publish.sh           the orchestrator (render, git add/commit/push,   *)
(*                        deploy-poll, POST to Readwise, report)           *)
(*   convert-to-html.js   the renderer, as publish.sh invokes it and run   *)
(*                        on its own                                       *)
(*   send-to-readwise.js  the direct sender of an HTML file                *)
(* External programs (node, git, curl) are modelled by their effect on the *)
(* file system, the git index/HEAD/remote and by their exit status, which  *)
(* is drawn nondeterministically from the outcomes they can have.          *)
(* Paths are sequences of one-character strings, so that the suffix and    *)
(* basename manipulations of the scripts are computed, not assumed.        *)
(***************************************************************************)
EXTENDS Integers, Sequences, FiniteSets, TLC

VARIABLES
    argv,           \* the positional arguments of publish.sh ($1 .. $#)
    fs,             \* working tree: path -> content, Absent when no file
    index,          \* git index (staged tree)
    head,           \* tree of the local branch's last commit
    remote,         \* tree of origin/main
    pc,             \* position of the script
    exitCode,       \* exit status of the script, meaningful when pc = "exited"
    out,            \* the messages printed so far
    MARKDOWN_FILE,  \* publish.sh:12
    HTML_BASENAME,  \* publish.sh:25
    HTML_FILE,      \* publish.sh:26
    HTML_URL,       \* publish.sh:37
    ATTEMPT,        \* publish.sh:43
    HTTP_CODE,      \* publish.sh:45
    outputFile,     \* convert-to-html.js:129, the path the renderer wrote
    hist,           \* the external steps started so far, in order
    failed,         \* the steps whose command returned a non-zero status
    pushed,         \* git push has succeeded in this run
    polls,          \* number of poll requests (curl, line 45) made
    posts,          \* number of POST requests (curl, line 63) made
    postStatus,     \* HTTP status of the POST's response, 0 when none
    TITLE,          \* publish.sh:13
    TAGS,           \* publish.sh:14
    NOTES,          \* publish.sh:15
    body,           \* the text put into each slot of the POST's JSON body
    polledUrls,     \* the URLs the poll requests (curl, line 45) were made to
    authHeader,     \* the value of the POST's Authorization header, line 64
    console,        \* the values interpolated into what the run prints
    \* convert-to-html.js run on its own
    cArgv,          \* process.argv from index 2 on
    cFs,            \* the files: path -> [exists, lines]
    cPc,            \* "ready" before a run, "exited" after it, "off" when unused
    cExit,          \* exit code of the last run
    cOut,           \* the messages of the last run
    markdown,       \* convert-to-html.js:132, the file as the last run read it
    title,          \* convert-to-html.js:136, of the last run
    fullHtml,       \* convert-to-html.js:140, of the last run
    runs,           \* number of runs made
    firstRun,       \* what the first successful run read and wrote
    \* send-to-readwise.js
    sArgv,          \* process.argv from index 2 on
    token,          \* READWISE_ACCESS_TOKEN in the environment of either script
    htmlDisk,       \* the file at the path of the first argument
    sPc,            \* "ready", "waiting" for the response, "exited"; "off" when unused
    sExit,          \* exit code of the process
    sOut,           \* the messages printed
    sTitle,         \* send-to-readwise.js:16
    sTags,          \* send-to-readwise.js:17
    sNotes,         \* send-to-readwise.js:18
    htmlContent,    \* send-to-readwise.js:27, the file as read
    finalTitle,     \* send-to-readwise.js:31
    payload,        \* send-to-readwise.js:33-40
    requests,       \* number of POST requests made
    response,       \* the response received
    sConsole,       \* the values interpolated into what the run prints
    sRequest        \* the request as sent: headers and body, lines 42-54 and 79

vars == <<argv, fs, index, head, remote, pc, exitCode, out, MARKDOWN_FILE,
          HTML_BASENAME, HTML_FILE, HTML_URL, ATTEMPT, HTTP_CODE, outputFile,
          hist, failed, pushed, polls, posts, postStatus, TITLE, TAGS, NOTES,
          body, polledUrls, authHeader, console, cArgv, cFs, cPc, cExit, cOut, markdown, title, fullHtml,
          runs, firstRun, sArgv, token, htmlDisk, sPc, sExit, sOut, sTitle, sTags,
          sNotes, htmlContent, finalTitle, payload, requests, response,
          sConsole, sRequest>>

\* the variables of a run of publish.sh
publishVars ==
    <<argv, fs, index, head, remote, pc, exitCode, out, MARKDOWN_FILE,
      HTML_BASENAME, HTML_FILE, HTML_URL, ATTEMPT, HTTP_CODE, outputFile, hist,
      failed, pushed, polls, posts, postStatus, TITLE, TAGS, NOTES, body,
      polledUrls, authHeader, console>>

\* the variables of a run of send-to-readwise.js
sendVars ==
    <<sArgv, token, htmlDisk, sPc, sExit, sOut, sTitle, sTags, sNotes,
      htmlContent, finalTitle, payload, requests, response, sConsole, sRequest>>

\* the variables of a run of convert-to-html.js on its own
convVars ==
    <<cArgv, cFs, cPc, cExit, cOut, markdown, title, fullHtml, runs, firstRun>>

\* the variables of the POST's payload
payloadVars == <<TITLE, TAGS, NOTES, body>>

---------------------------------------------------------------------------
(* Bounds and program constants *)

\* The largest number of positional arguments tried (the script reads $1..$4).
MaxArgs == 4

\* publish.sh:42
MAX_ATTEMPTS == 60

---------------------------------------------------------------------------
(* Strings as sequences of characters *)

SLASH == "/"

DotMd == <<".", "m", "d">>

DotHtml == <<".", "h", "t", "m", "l">>

DocsDir == <<"d", "o", "c", "s", "/">>

EndsWith(s, suf) ==
    /\ Len(s) >= Len(suf)
    /\ SubSeq(s, Len(s) - Len(suf) + 1, Len(s)) = suf

StartsWith(s, pre) ==
    /\ Len(s) >= Len(pre)
    /\ SubSeq(s, 1, Len(pre)) = pre

\* bash ${s%suf}: s without its suffix suf, s itself when it does not end in suf
StripSuffix(s, suf) ==
    IF EndsWith(s, suf) THEN SubSeq(s, 1, Len(s) - Len(suf)) ELSE s

\* basename(1) of a path that does not end in a slash: what follows the last slash
Basename(s) ==
    LET slashes == {i \in 1..Len(s) : s[i] = SLASH}
        last == IF slashes = {} THEN 0
                ELSE CHOOSE i \in slashes : \A j \in slashes : j <= i
    IN  SubSeq(s, last + 1, Len(s))

\* JavaScript s.replace(/\.md$/, '.html'): s unchanged when it does not match
ReplaceMdExt(s) ==
    IF EndsWith(s, DotMd) THEN SubSeq(s, 1, Len(s) - Len(DotMd)) \o DotHtml ELSE s

---------------------------------------------------------------------------
(* The tags of the payload: publish.sh:14 and :70 *)

QUOTE == "\""

BACKSLASH == "\\"

COMMA == ","

SPACE == " "

\* publish.sh:14, the word of ${3:-sparky}
DefaultTags == <<"s", "p", "a", "r", "k", "y">>

\* bash ${x:-word}: word when x is unset or empty
DefaultIfEmpty(x, word) == IF x = <<>> THEN word ELSE x

\* sed 's/,/", "/g' on one line: every comma becomes quote, comma, space, quote
RECURSIVE SedCommas(_)
SedCommas(t) ==
    IF t = <<>> THEN <<>>
    ELSE (IF Head(t) = COMMA THEN <<QUOTE, COMMA, SPACE, QUOTE>> ELSE <<Head(t)>>)
            \o SedCommas(Tail(t))

\* publish.sh:70, echo "$TAGS" | sed 's/,/", "/g' | sed 's/^/"/' | sed 's/$/"/'
SedTags(t) == <<QUOTE>> \o SedCommas(t) \o <<QUOTE>>

\* publish.sh:70, the text of the "tags" slot of the body
TagsJson(t) == <<"[">> \o SedTags(t) \o <<"]">>

---------------------------------------------------------------------------
(* File contents and trees *)

Absent == [kind |-> "none", src |-> "-", ver |-> "-"]

Markdown(v) == [kind |-> "md", src |-> "-", ver |-> v]

\* marked(markdown) wrapped by createHtmlDocument: an HTML document that
\* records which text it was rendered from
Render(c) == [kind |-> "html", src |-> c.kind, ver |-> c.ver]

\* convert-to-html.js:129 with no output argument (process.argv[3] undefined)
DefaultOutputFile(inputFile) == ReplaceMdExt(inputFile)

\* line 25 without basename(1): the directory part of the path is kept
HtmlBasenameWithDir(md) == StripSuffix(md, DotMd) \o DotHtml

\* publish.sh:25
HtmlBasenameOf(md) == Basename(StripSuffix(md, DotMd) \o DotHtml)

\* publish.sh:26
HtmlFileOf(md) == DocsDir \o HtmlBasenameOf(md)

\* publish.sh:37
HtmlUrlOf(base) == <<"https://jrellegood.github.io/sparky-research/">> \o base

---------------------------------------------------------------------------
(* The inputs tried *)

PathTop == <<"a", ".", "m", "d">>

PathDocs == <<"d", "o", "c", "s", "/", "a", ".", "m", "d">>

PathSub == <<"n", "/", "a", ".", "m", "d">>

PathNoExt == <<"a", ".", "t">>

Paths == {PathTop, PathDocs, PathSub, PathNoExt}

AllFiles ==
    Paths \cup {DefaultOutputFile(p) : p \in Paths} \cup {HtmlFileOf(p) : p \in Paths}

NoPath == <<>>

\* the value of the i-th positional argument after the first
ArgWord(i) == <<"w">>

\* the values of $3 tried: empty, one tag, three tags, an empty first tag, a
\* tag that ends in a double quote, a tag that ends in a backslash
TagArgs ==
    { <<>>, <<"a">>, <<"a", ",", "b", ",", "c">>, <<",", "a">>,
      <<"a", QUOTE>>, <<"a", BACKSLASH>> }

\* the values of $2 tried: a word, one that ends in a double quote, one that
\* ends in a backslash
TitleArgs == { <<"w">>, <<"w", QUOTE>>, <<"w", BACKSLASH>> }

\* the values of $4 tried: a word, one that ends in a double quote
NoteArgs == { <<"w">>, <<"w", QUOTE>> }

\* the values of $2, $3 and $4 tried together
PayloadArgs ==
    {<<ArgWord(2), g, ArgWord(4)>> : g \in TagArgs}
        \cup {<<t, <<"a">>, ArgWord(4)>> : t \in TitleArgs}
        \cup {<<ArgWord(2), <<"a">>, m>> : m \in NoteArgs}

TokenUnset == [set |-> FALSE, value |-> <<>>]

TokenEmpty == [set |-> TRUE, value |-> <<>>]

TokenGiven == [set |-> TRUE, value |-> <<"k">>]

Tokens == {TokenUnset, TokenEmpty, TokenGiven}

\* the values of READWISE_ACCESS_TOKEN publish.sh is run with
PublishTokens == {TokenUnset, TokenGiven}

BodyUrl == <<"{", "str:url", ":", "str:u", "}">>

BodyEmptyObject == <<"{", "}">>

BodyNull == <<"null">>

BodyHtml == <<"<html>">>

BodyNone == <<>>

BodyError == <<"{", "str:detail", ":", "str:Invalid token.", "}">>

ResponseBodies == {BodyUrl, BodyEmptyObject, BodyError, BodyNull, BodyHtml, BodyNone}

\* the body of the API's response to the POST of publish.sh
ApiBody(status) ==
    IF status \in {200, 201} THEN BodyUrl
    ELSE IF status = 0 THEN BodyNone
    ELSE BodyError

NoBody == [url |-> <<>>, title |-> <<>>, tags |-> <<>>, notes |-> <<>>]

EmptyTree == [f \in AllFiles |-> Absent]

\* A working tree holding the article p (when mdPresent) and, unless docs is
\* "none", a docs/ HTML file rendered from version docs of the article.
InitialTree(p, mdPresent, docs) ==
    [f \in AllFiles |->
        IF f = p /\ mdPresent THEN Markdown("v2")
        ELSE IF f = HtmlFileOf(p) /\ docs # "none" THEN Render(Markdown(docs))
        ELSE Absent]

\* convert-to-html.js is not run on its own
ConvIdle ==
    /\ cArgv = <<>>
    /\ cFs = <<>>
    /\ cPc = "off"
    /\ cExit = 0
    /\ cOut = {}
    /\ markdown = <<>>
    /\ title = <<>>
    /\ fullHtml = <<>>
    /\ runs = 0
    /\ firstRun = <<>>

\* send-to-readwise.js is not run
SendNotRun ==
    /\ sArgv = <<>>
    /\ htmlDisk = <<>>
    /\ sPc = "off"
    /\ sExit = 0
    /\ sOut = {}
    /\ sTitle = <<>>
    /\ sTags = <<>>
    /\ sNotes = <<>>
    /\ htmlContent = <<>>
    /\ finalTitle = <<>>
    /\ payload = <<>>
    /\ requests = 0
    /\ response = <<>>
    /\ sConsole = {}
    /\ sRequest = <<>>

\* send-to-readwise.js is not run and no token is looked at
SendIdle ==
    /\ token = <<>>
    /\ SendNotRun

Init ==
    \E n \in 0..MaxArgs, p \in Paths, mdPresent \in BOOLEAN,
       docs \in {"none", "v1", "v2"}, committed \in BOOLEAN, a \in PayloadArgs :
        /\ argv = [i \in 1..n |-> IF i = 1 THEN p
                                  ELSE IF i <= 4 THEN a[i - 1] ELSE ArgWord(i)]
        /\ fs = InitialTree(p, mdPresent, docs)
        /\ head = IF committed THEN fs ELSE EmptyTree
        /\ index = head
        /\ remote = head
        /\ pc = "start"
        /\ exitCode = 0
        /\ out = {}
        /\ MARKDOWN_FILE = NoPath
        /\ HTML_BASENAME = NoPath
        /\ HTML_FILE = NoPath
        /\ HTML_URL = NoPath
        /\ ATTEMPT = 0
        /\ HTTP_CODE = ""
        /\ outputFile = NoPath
        /\ hist = <<>>
        /\ failed = {}
        /\ pushed = FALSE
        /\ polls = 0
        /\ posts = 0
        /\ postStatus = 0
        /\ TITLE = <<>>
        /\ TAGS = <<>>
        /\ NOTES = <<>>
        /\ body = NoBody
        /\ polledUrls = {}
        /\ authHeader = <<>>
        /\ console = {}
        /\ ConvIdle
        /\ token \in PublishTokens
        /\ SendNotRun

---------------------------------------------------------------------------
(* The shell and the outcomes of the external commands *)

\* the script without set -e: a failing command is followed by the next one
ErrExitOff == FALSE

\* publish.sh:5, set -e: a command that returns non-zero ends the script
ErrExit == TRUE

Aborts(status) == ErrExit /\ status # 0

\* "$i", the empty string when fewer than i arguments were given
Arg(i) == IF i <= Len(argv) THEN argv[i] ELSE <<>>

FileAt(tree, p) == IF p \in AllFiles THEN tree[p] ELSE Absent

\* the argument check off by one, [ $# -lt 1 ]
ArgCountOffByOne(n) == n < 1

\* publish.sh:7, [ $# -lt 2 ]
ArgCountTooFew(n) == n < 2

\* the file check testing the string instead of the file, [ -n "$MARKDOWN_FILE" ]
PathNonEmpty(p) == p # <<>>

\* publish.sh:17, [ -f "$MARKDOWN_FILE" ]
IsRegularFile(p) == FileAt(fs, p) # Absent

\* the loop condition off by one, [ $ATTEMPT -le $MAX_ATTEMPTS ]
LoopConditionInclusive(n) == n <= MAX_ATTEMPTS

\* publish.sh:44, [ $ATTEMPT -lt $MAX_ATTEMPTS ]
LoopCondition(n) == n < MAX_ATTEMPTS

\* Exit statuses of the commands; 0 is success. node exits 1 from its catch
\* block (or an uncaught exception), git with 1 or 128, curl with 6, 7, 28 ...
RendererStatuses == {0, 1}

GitAddStatuses == {0, 128}

GitCommitStatuses == {0, 1}

GitPushStatuses == {0, 1, 128}

\* curl -s -o /dev/null -w "%{http_code}": the status line of the response with
\* exit 0, or "000" with a non-zero exit when no response was obtained
CurlPollOutcomes ==
    { [exit |-> 0, code |-> "200"], [exit |-> 0, code |-> "404"],
      [exit |-> 0, code |-> "503"], [exit |-> 7, code |-> "000"] }

\* curl -X POST (no --fail): exit 0 whatever the HTTP status of the response,
\* non-zero when the request could not be made
CurlPostOutcomes ==
    { [exit |-> 0, status |-> 200], [exit |-> 0, status |-> 201],
      [exit |-> 0, status |-> 401], [exit |-> 0, status |-> 500],
      [exit |-> 7, status |-> 0] }

\* The bookkeeping of one external command `name` that returned `status`:
\* under set -e a failure ends the script with that status.
Command(name, status, nextpc) ==
    /\ hist' = IF hist # <<>> /\ hist[Len(hist)] = name THEN hist
               ELSE Append(hist, name)
    /\ failed' = IF status # 0 THEN failed \cup {name} ELSE failed
    /\ pc' = IF Aborts(status) THEN "exited" ELSE nextpc
    /\ exitCode' = IF Aborts(status) THEN status ELSE exitCode

---------------------------------------------------------------------------
(* publish.sh, one action per step *)

\* the argument check followed by a check of the token, as send-to-readwise.js
\* makes it
CheckArgsAndToken ==
    /\ pc = "start"
    /\ IF ArgCountTooFew(Len(argv))
       THEN /\ out' = out \cup {"usage"}
            /\ pc' = "exited"
            /\ exitCode' = 1
            /\ UNCHANGED <<MARKDOWN_FILE, TITLE, TAGS, NOTES>>
       ELSE /\ MARKDOWN_FILE' = Arg(1)
            /\ TITLE' = Arg(2)
            /\ TAGS' = DefaultIfEmpty(Arg(3), DefaultTags)
            /\ NOTES' = DefaultIfEmpty(Arg(4), <<>>)
            /\ IF ~token.set \/ token.value = <<>>
               THEN /\ out' = out \cup {"token-not-set"}
                    /\ pc' = "exited"
                    /\ exitCode' = 1
               ELSE /\ pc' = "filecheck"
                    /\ UNCHANGED <<out, exitCode>>
    /\ UNCHANGED <<argv, fs, index, head, remote, HTML_BASENAME, HTML_FILE,
                   HTML_URL, ATTEMPT, HTTP_CODE, outputFile, hist, failed,
                   pushed, polls, posts, postStatus, body>>
    /\ UNCHANGED <<polledUrls, authHeader, console>>
    /\ UNCHANGED convVars
    /\ UNCHANGED sendVars

\* publish.sh:7-15
CheckArgs ==
    /\ pc = "start"
    /\ IF ArgCountTooFew(Len(argv))
       THEN /\ out' = out \cup {"usage"}
            /\ pc' = "exited"
            /\ exitCode' = 1
            /\ UNCHANGED <<MARKDOWN_FILE, TITLE, TAGS, NOTES>>
       ELSE /\ MARKDOWN_FILE' = Arg(1)
            /\ TITLE' = Arg(2)
            /\ TAGS' = DefaultIfEmpty(Arg(3), DefaultTags)
            /\ NOTES' = DefaultIfEmpty(Arg(4), <<>>)
            /\ pc' = "filecheck"
            /\ UNCHANGED <<out, exitCode>>
    /\ UNCHANGED <<argv, fs, index, head, remote, HTML_BASENAME, HTML_FILE,
                   HTML_URL, ATTEMPT, HTTP_CODE, outputFile, hist, failed,
                   pushed, polls, posts, postStatus, body>>
    /\ UNCHANGED <<polledUrls, authHeader, console>>
    /\ UNCHANGED convVars
    /\ UNCHANGED sendVars

\* publish.sh:17-20
CheckFile ==
    /\ pc = "filecheck"
    /\ IF ~IsRegularFile(MARKDOWN_FILE)
       THEN /\ out' = out \cup {"not-found"}
            /\ pc' = "exited"
            /\ exitCode' = 1
       ELSE /\ pc' = "convert"
            /\ UNCHANGED <<out, exitCode>>
    /\ UNCHANGED <<argv, fs, index, head, remote, MARKDOWN_FILE, HTML_BASENAME,
                   HTML_FILE, HTML_URL, ATTEMPT, HTTP_CODE, outputFile, hist,
                   failed, pushed, polls, posts, postStatus>>
    /\ UNCHANGED payloadVars
    /\ console' = IF ~IsRegularFile(MARKDOWN_FILE) THEN console \cup {MARKDOWN_FILE}
                   ELSE console
    /\ UNCHANGED <<polledUrls, authHeader>>
    /\ UNCHANGED convVars
    /\ UNCHANGED sendVars

\* publish.sh:23-26 and convert-to-html.js:122-147 (main), run with the one
\* argument "$MARKDOWN_FILE": read the input, render, write outputFile.
Convert ==
    /\ pc = "convert"
    /\ \E env \in RendererStatuses :
        LET inputFile == MARKDOWN_FILE
            target == DefaultOutputFile(inputFile)
            status == IF FileAt(fs, inputFile) = Absent THEN 1 ELSE env
        IN  /\ fs' = IF status = 0
                     THEN [fs EXCEPT ![target] = Render(fs[inputFile])]
                     ELSE fs
            /\ outputFile' = IF status = 0 THEN target ELSE outputFile
            /\ out' = out \cup {"converting"}
                          \cup (IF status = 0 THEN {"converted"} ELSE {"convert-error"})
            /\ Command("render", status, "add")
            /\ IF Aborts(status)
               THEN UNCHANGED <<HTML_BASENAME, HTML_FILE>>
               ELSE /\ HTML_BASENAME' = HtmlBasenameOf(MARKDOWN_FILE)
                    /\ HTML_FILE' = DocsDir \o HTML_BASENAME'
    /\ UNCHANGED <<argv, index, head, remote, MARKDOWN_FILE, HTML_URL, ATTEMPT,
                   HTTP_CODE, pushed, polls, posts, postStatus>>
    /\ UNCHANGED payloadVars
    /\ console' = console \cup {MARKDOWN_FILE, DefaultOutputFile(MARKDOWN_FILE)}
    /\ UNCHANGED <<polledUrls, authHeader>>
    /\ UNCHANGED convVars
    /\ UNCHANGED sendVars

\* publish.sh:29-30, git add "$MARKDOWN_FILE" "$HTML_FILE": fatal (128), with
\* nothing staged, when a pathspec matches no file; else both are staged.
GitAdd ==
    /\ pc = "add"
    /\ \E env \in GitAddStatuses :
        LET specs == {MARKDOWN_FILE, HTML_FILE}
            matches(p) == FileAt(fs, p) # Absent \/ FileAt(index, p) # Absent
            status == IF \A p \in specs : matches(p) THEN env ELSE 128
        IN  /\ index' = IF status = 0
                        THEN [f \in AllFiles |->
                                 IF f \in specs THEN fs[f] ELSE index[f]]
                        ELSE index
            /\ out' = out \cup {"committing"}
            /\ Command("add", status, "commit")
    /\ UNCHANGED <<argv, fs, head, remote, MARKDOWN_FILE, HTML_BASENAME,
                   HTML_FILE, HTML_URL, ATTEMPT, HTTP_CODE, outputFile, pushed,
                   polls, posts, postStatus>>
    /\ UNCHANGED payloadVars
    /\ UNCHANGED <<polledUrls, authHeader, console>>
    /\ UNCHANGED convVars
    /\ UNCHANGED sendVars

\* publish.sh:31, git commit -m "Add: $TITLE": 1 when nothing is staged
GitCommit ==
    /\ pc = "commit"
    /\ \E env \in GitCommitStatuses :
        LET status == IF index = head THEN 1 ELSE env
        IN  /\ head' = IF status = 0 THEN index ELSE head
            /\ Command("commit", status, "push")
    /\ UNCHANGED <<argv, fs, index, remote, out, MARKDOWN_FILE, HTML_BASENAME,
                   HTML_FILE, HTML_URL, ATTEMPT, HTTP_CODE, outputFile, pushed,
                   polls, posts, postStatus>>
    /\ UNCHANGED payloadVars
    /\ console' = IF head' # head THEN console \cup {TITLE} ELSE console
    /\ UNCHANGED <<polledUrls, authHeader>>
    /\ UNCHANGED convVars
    /\ UNCHANGED sendVars

\* the push started in the background (git push origin main &): the script
\* goes on at once, whether or not the push has reached the remote
GitPushInBackground ==
    /\ pc = "push"
    /\ Command("push", 0, "poll")
    /\ out' = out \cup {"pushing", "waiting"}
    /\ HTML_URL' = HtmlUrlOf(HTML_BASENAME)
    /\ ATTEMPT' = 0
    /\ UNCHANGED <<argv, fs, index, head, remote, MARKDOWN_FILE, HTML_BASENAME,
                   HTML_FILE, HTTP_CODE, outputFile, pushed, polls, posts,
                   postStatus>>
    /\ UNCHANGED payloadVars
    /\ console' = console \cup {HTML_URL'}
    /\ UNCHANGED <<polledUrls, authHeader>>
    /\ UNCHANGED convVars
    /\ UNCHANGED sendVars

\* publish.sh:33-43, git push origin main, then the set-up of the poll loop
GitPush ==
    /\ pc = "push"
    /\ \E status \in GitPushStatuses :
        /\ remote' = IF status = 0 THEN head ELSE remote
        /\ pushed' = (pushed \/ status = 0)
        /\ Command("push", status, "poll")
        /\ IF Aborts(status)
           THEN /\ out' = out \cup {"pushing"}
                /\ UNCHANGED <<HTML_URL, ATTEMPT>>
           ELSE /\ out' = out \cup {"pushing", "waiting"}
                /\ HTML_URL' = HtmlUrlOf(HTML_BASENAME)
                /\ ATTEMPT' = 0
    /\ UNCHANGED <<argv, fs, index, head, MARKDOWN_FILE, HTML_BASENAME,
                   HTML_FILE, HTTP_CODE, outputFile, polls, posts, postStatus>>
    /\ UNCHANGED payloadVars
    /\ console' = IF HTML_URL' # HTML_URL THEN console \cup {HTML_URL'} ELSE console
    /\ UNCHANGED <<polledUrls, authHeader>>
    /\ UNCHANGED convVars
    /\ UNCHANGED sendVars

\* publish.sh:44-53, one iteration of the poll loop
PollAttempt ==
    /\ pc = "poll"
    /\ LoopCondition(ATTEMPT)
    /\ \E o \in CurlPollOutcomes :
        /\ polls' = polls + 1
        /\ HTTP_CODE' = o.code
        /\ Command("poll", o.exit,
                   IF o.code = "200" THEN "timeoutcheck" ELSE "poll")
        /\ IF Aborts(o.exit)
           THEN UNCHANGED <<out, ATTEMPT>>
           ELSE IF o.code = "200"
                THEN /\ out' = out \cup {"page-is-live"}
                     /\ UNCHANGED ATTEMPT
                ELSE /\ out' = out \cup {"."}
                     /\ ATTEMPT' = ATTEMPT + 1
    /\ UNCHANGED <<argv, fs, index, head, remote, MARKDOWN_FILE, HTML_BASENAME,
                   HTML_FILE, HTML_URL, outputFile, pushed, posts, postStatus>>
    /\ UNCHANGED payloadVars
    /\ polledUrls' = polledUrls \cup {HTML_URL}
    /\ UNCHANGED <<authHeader, console>>
    /\ UNCHANGED convVars
    /\ UNCHANGED sendVars

\* publish.sh:44, the loop condition fails
PollLoopExit ==
    /\ pc = "poll"
    /\ ~LoopCondition(ATTEMPT)
    /\ pc' = "timeoutcheck"
    /\ UNCHANGED <<argv, fs, index, head, remote, exitCode, out, MARKDOWN_FILE,
                   HTML_BASENAME, HTML_FILE, HTML_URL, ATTEMPT, HTTP_CODE,
                   outputFile, hist, failed, pushed, polls, posts, postStatus>>
    /\ UNCHANGED payloadVars
    /\ UNCHANGED <<polledUrls, authHeader, console>>
    /\ UNCHANGED convVars
    /\ UNCHANGED sendVars

\* publish.sh:55-58
TimeoutCheck ==
    /\ pc = "timeoutcheck"
    /\ out' = IF ATTEMPT = MAX_ATTEMPTS THEN out \cup {"timeout-warning"} ELSE out
    /\ pc' = "post"
    /\ UNCHANGED <<argv, fs, index, head, remote, exitCode, MARKDOWN_FILE,
                   HTML_BASENAME, HTML_FILE, HTML_URL, ATTEMPT, HTTP_CODE,
                   outputFile, hist, failed, pushed, polls, posts, postStatus>>
    /\ UNCHANGED payloadVars
    /\ UNCHANGED <<polledUrls, authHeader, console>>
    /\ UNCHANGED convVars
    /\ UNCHANGED sendVars

\* the POST step with a rollback of the push when the POST fails
SendToReadwiseWithRollback ==
    /\ pc = "post"
    /\ \E o \in CurlPostOutcomes :
        /\ posts' = posts + 1
        /\ postStatus' = o.status
        /\ out' = out \cup {"sending"}
        /\ body' = [url |-> HTML_URL, title |-> TITLE, tags |-> TagsJson(TAGS),
                    notes |-> NOTES]
        /\ remote' = IF o.exit # 0 THEN EmptyTree ELSE remote
        /\ Command("post", o.exit, "report")
    /\ UNCHANGED <<argv, fs, index, head, MARKDOWN_FILE, HTML_BASENAME,
                   HTML_FILE, HTML_URL, ATTEMPT, HTTP_CODE, outputFile, pushed,
                   polls, TITLE, TAGS, NOTES>>
    /\ authHeader' = <<"Token ">> \o token.value
    /\ console' = console \cup {HTML_URL, ApiBody(postStatus')}
    /\ UNCHANGED polledUrls
    /\ UNCHANGED convVars
    /\ UNCHANGED sendVars

\* publish.sh:61-72, the POST to the Readwise API
SendToReadwise ==
    /\ pc = "post"
    /\ \E o \in CurlPostOutcomes :
        /\ posts' = posts + 1
        /\ postStatus' = o.status
        /\ out' = out \cup {"sending"}
        /\ body' = [url |-> HTML_URL, title |-> TITLE, tags |-> TagsJson(TAGS),
                    notes |-> NOTES]
        /\ Command("post", o.exit, "report")
    /\ UNCHANGED <<argv, fs, index, head, remote, MARKDOWN_FILE, HTML_BASENAME,
                   HTML_FILE, HTML_URL, ATTEMPT, HTTP_CODE, outputFile, pushed,
                   polls, TITLE, TAGS, NOTES>>
    /\ authHeader' = <<"Token ">> \o token.value
    /\ console' = console \cup {HTML_URL, ApiBody(postStatus')}
    /\ UNCHANGED polledUrls
    /\ UNCHANGED convVars
    /\ UNCHANGED sendVars

\* publish.sh:74-77, the success report; the script ends with status 0
Report ==
    /\ pc = "report"
    /\ out' = out \cup {"published"}
    /\ pc' = "exited"
    /\ exitCode' = 0
    /\ UNCHANGED <<argv, fs, index, head, remote, MARKDOWN_FILE, HTML_BASENAME,
                   HTML_FILE, HTML_URL, ATTEMPT, HTTP_CODE, outputFile, hist,
                   failed, pushed, polls, posts, postStatus>>
    /\ UNCHANGED payloadVars
    /\ console' = console \cup {MARKDOWN_FILE, HTML_URL}
    /\ UNCHANGED <<polledUrls, authHeader>>
    /\ UNCHANGED convVars
    /\ UNCHANGED sendVars

Next ==
    \/ CheckArgs
    \/ CheckFile
    \/ Convert
    \/ GitAdd
    \/ GitCommit
    \/ GitPush
    \/ PollAttempt
    \/ PollLoopExit
    \/ TimeoutCheck
    \/ SendToReadwise
    \/ Report

Spec == Init /\ [][Next]_vars

\* Every command of the script returns, so a script that can take a step does.
FairSpec == Spec /\ WF_vars(Next)

---------------------------------------------------------------------------
(* The claims *)

Started(step) == \E i \in 1..Len(hist) : hist[i] = step

IsPrefix(s, t) == Len(s) <= Len(t) /\ SubSeq(t, 1, Len(s)) = s

\* the order of the external steps of a run
StepOrder == <<"render", "add", "commit", "push", "poll", "post">>

\* nothing has been rendered, staged, committed, pushed or requested
NothingDone ==
    /\ hist = <<>>
    /\ outputFile = NoPath
    /\ index = head
    /\ head = remote
    /\ ~pushed
    /\ polls = 0
    /\ posts = 0

\* C1: a run whose 60 poll attempts all ended without an HTTP 200, whatever
\* each attempt's outcome was (another status, or no status at all), does not
\* abort: it prints the timeout warning and issues the POST.
C1_PollExhaustionProceeds ==
    (pc = "exited" /\ polls = MAX_ATTEMPTS /\ HTTP_CODE # "200")
        => ("timeout-warning" \in out /\ posts = 1)

\* C2: with at least two arguments and a markdown path that names no regular
\* file, the run ends with a non-zero exit code right after the file check,
\* having rendered, staged, committed, pushed and requested nothing.
C2_MissingFileRefused ==
    (Len(argv) >= 2 /\ FileAt(fs, Arg(1)) = Absent)
        => /\ pc \in {"start", "filecheck", "exited"}
           /\ pc = "exited" => (exitCode # 0 /\ "not-found" \in out)
           /\ NothingDone

C2_Witness ==
    /\ Len(argv) >= 2
    /\ FileAt(fs, Arg(1)) = Absent
    /\ pc = "exited"
    /\ "not-found" \in out

\* C3: with fewer than two arguments the first step prints the usage message
\* and exits with code 1; nothing else is printed or done.
C3_TooFewArgsUsage ==
    (Len(argv) < 2 /\ pc # "start")
        => /\ pc = "exited"
           /\ exitCode = 1
           /\ out = {"usage"}
           /\ NothingDone

C3_Witness ==
    /\ Len(argv) = 1
    /\ pc = "exited"
    /\ "usage" \in out

\* C4: when the Readwise API answers the POST with a status other than 200 or
\* 201, the run ends with a non-zero exit code and never prints the
\* 'Published successfully' report.
C4_FailedPostIsHardFailure ==
    (posts > 0 /\ postStatus \notin {200, 201})
        => /\ pc = "exited" => exitCode # 0
           /\ "published" \notin out

\* C5: in a run that reaches the commit step, the staged HTML file is the file
\* the renderer wrote in this run, it is the rendering of the staged markdown,
\* and the two share a basename.
C5_CommittedHtmlIsRenderedFile ==
    (pc = "commit" \/ Started("commit"))
        => /\ HTML_FILE = outputFile
           /\ FileAt(index, HTML_FILE) = Render(FileAt(index, MARKDOWN_FILE))
           /\ StripSuffix(Basename(HTML_FILE), DotHtml)
                = StripSuffix(Basename(MARKDOWN_FILE), DotMd)

\* C6: the renderer, given only an input path, writes its output into docs/.
C6_DefaultOutputInDocs ==
    outputFile # NoPath => StartsWith(outputFile, DocsDir)

\* C7: the steps of a run start in the order render, add, commit, push, poll,
\* POST; no poll request is made before a successful push, no POST before the
\* poll loop has ended, and a run that ends normally has run all of them, each
\* with success.
C7_StepsInOrder ==
    /\ IsPrefix(hist, StepOrder)
    /\ polls > 0 => (pushed /\ remote = head)
    /\ posts > 0 => /\ pc \in {"report", "exited"}
                    /\ polls > 0
                    /\ HTTP_CODE = "200" \/ ATTEMPT >= MAX_ATTEMPTS
    /\ (pc = "exited" /\ "published" \in out)
          => (hist = StepOrder /\ failed = {} /\ exitCode = 0)

C7_Witness ==
    /\ pc = "exited"
    /\ "published" \in out
    /\ "timeout-warning" \in out
    /\ hist = StepOrder

\* C8: when the renderer, git add, git commit or git push returns a non-zero
\* status, the run ends there with a non-zero exit code: the failed step is
\* the last one started, and nothing is polled or posted.
C8_FailedStepAborts ==
    \A s \in {"render", "add", "commit", "push"} :
        s \in failed
            => /\ pc = "exited"
               /\ exitCode # 0
               /\ hist[Len(hist)] = s
               /\ ~pushed
               /\ polls = 0
               /\ posts = 0

C8_Witness ==
    /\ "push" \in failed
    /\ pc = "exited"
    /\ head # remote

\* C9: a run that got past the push has issued exactly one POST when it ends,
\* and a run that ended before the push has issued none.
C9_ExactlyOnePostAfterPush ==
    pc = "exited" => posts = (IF pushed THEN 1 ELSE 0)

\* C10: the poll loop always terminates, and no run makes more than 60 poll
\* requests.
C10_PollLoopBounded ==
    /\ [](polls <= MAX_ATTEMPTS)
    /\ [](pc = "poll" => <>(pc # "poll"))

C10_Witness ==
    /\ polls = MAX_ATTEMPTS
    /\ pc = "timeoutcheck"
    /\ HTTP_CODE # "200"

---------------------------------------------------------------------------
(* JSON text of an array of strings, as a JSON parser reads it (RFC 8259) *)

JsonEscapes == {QUOTE, BACKSLASH, "/", "b", "f", "n", "r", "t"}

\* the character an escape sequence stands for
Unescaped(c) == IF c \in {QUOTE, BACKSLASH, "/"} THEN c ELSE "control-" \o c

NoParse == [ok |-> FALSE, items |-> <<>>]

RECURSIVE SkipSpaces(_, _)
SkipSpaces(s, i) ==
    IF i <= Len(s) /\ s[i] = SPACE THEN SkipSpaces(s, i + 1) ELSE i

\* the string whose opening quote stands before position j
RECURSIVE JsonStringFrom(_, _, _)
JsonStringFrom(s, j, acc) ==
    IF j > Len(s) THEN [ok |-> FALSE, val |-> <<>>, next |-> j]
    ELSE IF s[j] = QUOTE THEN [ok |-> TRUE, val |-> acc, next |-> j + 1]
    ELSE IF s[j] = BACKSLASH
         THEN IF j + 1 <= Len(s) /\ s[j + 1] \in JsonEscapes
              THEN JsonStringFrom(s, j + 2, Append(acc, Unescaped(s[j + 1])))
              ELSE [ok |-> FALSE, val |-> <<>>, next |-> j]
    ELSE JsonStringFrom(s, j + 1, Append(acc, s[j]))

\* the elements from position i on: a string, then a comma or the closing bracket
RECURSIVE JsonItemsFrom(_, _, _)
JsonItemsFrom(s, i, acc) ==
    LET j == SkipSpaces(s, i)
    IN  IF j > Len(s) \/ s[j] # QUOTE THEN NoParse
        ELSE LET r == JsonStringFrom(s, j + 1, <<>>)
                 k == SkipSpaces(s, r.next)
             IN  IF ~r.ok \/ k > Len(s) THEN NoParse
                 ELSE IF s[k] = COMMA
                      THEN JsonItemsFrom(s, k + 1, Append(acc, r.val))
                 ELSE IF s[k] = "]" /\ SkipSpaces(s, k + 1) > Len(s)
                      THEN [ok |-> TRUE, items |-> Append(acc, r.val)]
                 ELSE NoParse

ParseJsonStringArray(s) ==
    IF s = <<>> \/ s[1] # "[" THEN NoParse
    ELSE LET j == SkipSpaces(s, 2)
         IN  IF j = Len(s) /\ s[j] = "]" THEN [ok |-> TRUE, items |-> <<>>]
             ELSE JsonItemsFrom(s, 2, <<>>)

\* the pieces of t between its commas, in order
RECURSIVE SplitOnCommas(_)
SplitOnCommas(t) ==
    LET commas == {i \in 1..Len(t) : t[i] = COMMA}
    IN  IF commas = {} THEN <<t>>
        ELSE LET i == CHOOSE c \in commas : \A d \in commas : c <= d
             IN  <<SubSeq(t, 1, i - 1)>> \o SplitOnCommas(SubSeq(t, i + 1, Len(t)))

\* C11: the tags array of the POSTed body holds the comma-separated pieces of
\* the tags argument, in order: n commas give n + 1 elements.
C11_TagsSplitOnCommas ==
    (posts > 0 /\ Arg(3) # <<>>)
        => LET r == ParseJsonStringArray(body.tags)
           IN  /\ r.ok
               /\ r.items = SplitOnCommas(Arg(3))
               /\ Len(r.items) = Cardinality({i \in 1..Len(Arg(3)) : Arg(3)[i] = COMMA}) + 1

\* the same for a tags argument that holds no double quote and no backslash
C11_PlainTagsSplit ==
    (posts > 0 /\ Arg(3) # <<>> /\ \A i \in 1..Len(Arg(3)) : Arg(3)[i] \notin {QUOTE, BACKSLASH})
        => LET r == ParseJsonStringArray(body.tags)
           IN  r.ok /\ r.items = SplitOnCommas(Arg(3))

---------------------------------------------------------------------------
(* convert-to-html.js run on its own: node convert-to-html.js input [output] *)
(* A file is a sequence of lines, a line a sequence of characters and tags. *)

\* the longest markdown input tried, in lines
MaxLines == 4

\* the number of times the converter is run on the same arguments
MaxRuns == 2

NoFile == [exists |-> FALSE, lines |-> <<>>]

File(lines) == [exists |-> TRUE, lines |-> lines]

LineH1A == <<"#", " ", "A">>

LineH1B == <<"#", " ", "B">>

\* a code fence (CommonMark: three backticks or three tildes)
LineFence == <<"~", "~", "~">>

LineText == <<"W">>

LineEmpty == <<>>

LineKinds == {LineH1A, LineH1B, LineFence, LineText, LineEmpty}

Docs == UNION {[1..n -> LineKinds] : n \in 0..MaxLines}

PathOut == <<"o">>

RenderInputs == {PathSub, PathNoExt}

RenderFiles == RenderInputs \cup {ReplaceMdExt(p) : p \in RenderInputs} \cup {PathOut}

\* an output file left by an earlier conversion of something else
OldHtml == << <<"<p>", "o", "l", "d", "</p>">> >>

\* the publishing script is not run
PublishIdle ==
    /\ argv = <<>>
    /\ fs = EmptyTree
    /\ index = EmptyTree
    /\ head = EmptyTree
    /\ remote = EmptyTree
    /\ pc = "off"
    /\ exitCode = 0
    /\ out = {}
    /\ MARKDOWN_FILE = NoPath
    /\ HTML_BASENAME = NoPath
    /\ HTML_FILE = NoPath
    /\ HTML_URL = NoPath
    /\ ATTEMPT = 0
    /\ HTTP_CODE = ""
    /\ outputFile = NoPath
    /\ hist = <<>>
    /\ failed = {}
    /\ pushed = FALSE
    /\ polls = 0
    /\ posts = 0
    /\ postStatus = 0
    /\ TITLE = <<>>
    /\ TAGS = <<>>
    /\ NOTES = <<>>
    /\ body = NoBody
    /\ polledUrls = {}
    /\ authHeader = <<>>
    /\ console = {}

\* convert-to-html.js:129
OutputFileOf(args) ==
    IF Len(args) >= 2 /\ args[2] # <<>> THEN args[2] ELSE DefaultOutputFile(args[1])

\* convert-to-html.js:135, /^# (.+)$/m tried on one line: a hash, a space and at
\* least one more character
TitleMatch(line) == Len(line) >= 3 /\ line[1] = "#" /\ line[2] = SPACE

\* node's path.basename(p, ext)
NodeBasename(p, ext) ==
    LET b == Basename(p)
    IN  IF EndsWith(b, ext) /\ Len(b) > Len(ext)
        THEN SubSeq(b, 1, Len(b) - Len(ext)) ELSE b

\* convert-to-html.js:135-136: group 1 of the first match in the text, else the
\* base name of the input file
ExtractTitle(lines, inputFile) ==
    LET hits == {i \in 1..Len(lines) : TitleMatch(lines[i])}
    IN  IF hits = {} THEN NodeBasename(inputFile, DotMd)
        ELSE LET i == CHOOSE h \in hits : \A g \in hits : h <= g
             IN  SubSeq(lines[i], 3, Len(lines[i]))

\* marked's block structure, as far as the inputs tried need it: a fence line
\* opens or closes a fenced code block, whose lines are code; outside
\* one, "# text" is a level-1 heading, an empty line separates, any other line
\* is a paragraph.
RECURSIVE BlocksFrom(_, _, _)
BlocksFrom(lines, i, inFence) ==
    IF i > Len(lines) THEN <<>>
    ELSE LET l == lines[i]
         IN  IF l = LineFence THEN BlocksFrom(lines, i + 1, ~inFence)
             ELSE IF inFence
                  THEN <<[tag |-> "code", text |-> l]>> \o BlocksFrom(lines, i + 1, TRUE)
             ELSE IF l = <<>> THEN BlocksFrom(lines, i + 1, FALSE)
             ELSE IF Len(l) >= 3 /\ l[1] = "#" /\ l[2] = SPACE
                  THEN <<[tag |-> "h1", text |-> SubSeq(l, 3, Len(l))]>>
                          \o BlocksFrom(lines, i + 1, FALSE)
             ELSE <<[tag |-> "p", text |-> l]>> \o BlocksFrom(lines, i + 1, FALSE)

Blocks(lines) == BlocksFrom(lines, 1, FALSE)

\* convert-to-html.js:139, marked(markdown): one line of HTML per block
Marked(lines) ==
    LET b == Blocks(lines)
    IN  [i \in 1..Len(b) |->
            <<"<" \o b[i].tag \o ">">> \o b[i].text \o <<"</" \o b[i].tag \o ">">>]

\* the template with a fixed title instead of the ${title} placeholder
CreateHtmlDocumentUntitled(t, content) ==
    << <<"<!DOCTYPE html>">>, <<"<html lang=\"en\">">>, <<"<head>">>,
       <<"<meta charset=\"UTF-8\">">>, <<"<meta name=\"viewport\">">>,
       <<"<title>", "D", "o", "c", "</title>">>,
       <<"<style>">>, <<"</style>">>, <<"</head>">>, <<"<body>">> >>
      \o content \o << <<"</body>">>, <<"</html>">> >>

\* convert-to-html.js:11-120
CreateHtmlDocument(t, content) ==
    << <<"<!DOCTYPE html>">>, <<"<html lang=\"en\">">>, <<"<head>">>,
       <<"<meta charset=\"UTF-8\">">>, <<"<meta name=\"viewport\">">>,
       <<"<title>">> \o t \o <<"</title>">>,
       <<"<style>">>, <<"</style>">>, <<"</head>">>, <<"<body>">> >>
      \o content \o << <<"</body>">>, <<"</html>">> >>

NoRun == [done |-> FALSE, markdown |-> <<>>, html |-> <<>>]

\* the output file with the text appended to what it held (fs.appendFileSync)
AppendFile(old, text) == File(old.lines \o text)

\* convert-to-html.js:142, fs.writeFileSync: the file holds the text, whatever
\* it held before
WriteFile(old, text) == File(text)

\* the catch block leaving an empty output file behind
OnReadErrorTruncates(files, target) == [files EXCEPT ![target] = File(<<>>)]

\* convert-to-html.js:144-147, the catch block after a failed read: no file is
\* touched
OnReadError(files, target) == files

\* what fs.writeFileSync can do to the file: write it, fail before touching
\* it, fail after truncating it
WriteOutcomes == {"written", "failed", "truncated"}

RenderInit ==
    /\ PublishIdle
    /\ SendIdle
    /\ \E n \in 0..2, input \in RenderInputs, d \in Docs,
          present \in BOOLEAN, old \in BOOLEAN :
        /\ cArgv = SubSeq(<<input, PathOut>>, 1, n)
        /\ cFs = [f \in RenderFiles |->
                    IF n = 0 THEN NoFile
                    ELSE IF f = input
                         THEN (IF present THEN File(d) ELSE NoFile)
                    ELSE IF f = OutputFileOf(cArgv) /\ old THEN File(OldHtml)
                    ELSE NoFile]
    /\ cPc = "ready"
    /\ cExit = 0
    /\ cOut = {}
    /\ markdown = NoFile
    /\ title = <<>>
    /\ fullHtml = <<>>
    /\ runs = 0
    /\ firstRun = NoRun

\* convert-to-html.js:122-147, one run
ConvertMain ==
    /\ cPc \in {"ready", "exited"}
    /\ runs < MaxRuns
    /\ runs' = runs + 1
    /\ cPc' = "exited"
    /\ IF Len(cArgv) < 1
       THEN /\ cOut' = {"usage"}
            /\ cExit' = 1
            /\ UNCHANGED <<cFs, markdown, title, fullHtml, firstRun>>
       ELSE \E readable \in BOOLEAN, w \in WriteOutcomes :
            LET inputFile == cArgv[1]
                target == OutputFileOf(cArgv)
            IN  IF ~cFs[inputFile].exists \/ ~readable
                THEN /\ cOut' = {"error"}
                     /\ cExit' = 1
                     /\ markdown' = NoFile
                     /\ cFs' = OnReadError(cFs, target)
                     /\ UNCHANGED <<title, fullHtml, firstRun>>
                ELSE LET text == cFs[inputFile].lines
                         t == ExtractTitle(text, inputFile)
                         html == CreateHtmlDocument(t, Marked(text))
                     IN  /\ markdown' = File(text)
                         /\ title' = t
                         /\ fullHtml' = html
                         /\ cFs' = IF w = "written"
                                   THEN [cFs EXCEPT ![target] = WriteFile(cFs[target], html)]
                                   ELSE IF w = "truncated"
                                   THEN [cFs EXCEPT ![target] = File(<<>>)]
                                   ELSE cFs
                         /\ cOut' = IF w = "written" THEN {"converted"} ELSE {"error"}
                         /\ cExit' = IF w = "written" THEN 0 ELSE 1
                         /\ firstRun' = IF w = "written" /\ ~firstRun.done
                                        THEN [done |-> TRUE, markdown |-> text,
                                              html |-> cFs'[target].lines]
                                        ELSE firstRun
    /\ UNCHANGED <<cArgv>>
    /\ UNCHANGED <<argv, fs, index, head, remote, pc, exitCode, out,
                   MARKDOWN_FILE, HTML_BASENAME, HTML_FILE, HTML_URL, ATTEMPT,
                   HTTP_CODE, outputFile, hist, failed, pushed, polls, posts,
                   postStatus, payloadVars, polledUrls, authHeader, console>>
    /\ UNCHANGED sendVars

RenderNext == ConvertMain

RenderSpec == RenderInit /\ [][RenderNext]_vars

---------------------------------------------------------------------------
(* The claims about convert-to-html.js *)

\* the texts of the level-1 headings of a markdown text, in order
H1Texts(lines) ==
    LET b == Blocks(lines)
        h == SelectSeq(b, LAMBDA x : x.tag = "h1")
    IN  [i \in 1..Len(h) |-> h[i].text]

\* C12: for a markdown input with exactly one level-1 heading, the extracted
\* title is the text of that heading.
C12_SingleHeadingIsTitle ==
    (markdown.exists /\ Len(H1Texts(markdown.lines)) = 1)
        => title = H1Texts(markdown.lines)[1]

\* C13: for a markdown input with no level-1 heading, the extracted title is
\* the base name of the input file without its .md extension.
C13_NoHeadingGivesBasename ==
    (markdown.exists /\ H1Texts(markdown.lines) = <<>>)
        => title = StripSuffix(Basename(cArgv[1]), DotMd)

\* the content of the first title element of an HTML text
TitleElement(lines) ==
    LET at == {i \in 1..Len(lines) : lines[i] # <<>> /\ lines[i][1] = "<title>"}
        i == CHOOSE a \in at : \A b \in at : a <= b
        l == lines[i]
        ends == {j \in 2..Len(l) : l[j] = "</title>"}
        j == CHOOSE e \in ends : \A f \in ends : e <= f
    IN  SubSeq(l, 2, j - 1)

\* the lines between the opening and the closing body tag of an HTML text
BodyContent(lines) ==
    LET opens == {i \in 1..Len(lines) : lines[i] = <<"<body>">>}
        closes == {i \in 1..Len(lines) : lines[i] = <<"</body>">>}
        first == CHOOSE a \in opens : \A b \in opens : a <= b
        last == CHOOSE a \in closes : \A b \in closes : b <= a
    IN  SubSeq(lines, first + 1, last - 1)

C16_UnreadableInputNoOutput ==
    [][(runs' # runs /\ Len(cArgv) >= 1
          /\ (~cFs[cArgv[1]].exists \/ ~markdown'.exists))
        => (cFs' = cFs /\ cExit' # 0 /\ "error" \in cOut')]_vars

C16_Witness ==
    /\ cPc = "exited"
    /\ Len(cArgv) >= 1
    /\ ~markdown.exists
    /\ cExit = 1
    /\ cFs[cArgv[1]].exists
    /\ cFs[OutputFileOf(cArgv)] = File(OldHtml)

---------------------------------------------------------------------------
(* send-to-readwise.js: node send-to-readwise.js html-file [title] [tags] [notes] *)

\* the token check as token === undefined: an empty token passes
TokenUndefined(t) == ~t.set

\* send-to-readwise.js:21, !token: undefined and the empty string are falsy
TokenFalsy(t) == ~t.set \/ t.value = <<>>

\* the default tags of publish.sh used here too
SendDefaultTagsSparky == DefaultTags

\* send-to-readwise.js:17, 'sparky-research'
SendDefaultTags ==
    <<"s", "p", "a", "r", "k", "y", "-", "r", "e", "s", "e", "a", "r", "c", "h">>

\* JavaScript x || word for a string x: word when x is undefined or empty
OrDefault(x, word) == IF x = <<>> THEN word ELSE x

\* process.argv[i + 1], undefined (here empty) when not given
SArg(i) == IF i <= Len(sArgv) THEN sArgv[i] ELSE <<>>

PathHtml == <<"a", ".", "h", "t", "m", "l">>

HtmlWithTitle == <<"<title>", "T", "</title>", "<p>", "x", "</p>">>

HtmlNoTitle == <<"<p>", "x", "</p>">>

\* a text with characters outside ASCII: e with acute accent, grinning face
HtmlAccented == <<"<p>", "U+00E9", "U+1F600", "</p>">>

\* the length of a piece of text in UTF-16 code units, which is what
\* String.prototype.length counts
CodeUnits(c) ==
    IF c = "U+00E9" THEN 1
    ELSE IF c = "U+1F600" THEN 2
    ELSE Len(c)

\* the length of a piece of text in bytes of UTF-8, which is what req.write
\* puts on the wire
Utf8Bytes(c) ==
    IF c = "U+00E9" THEN 2
    ELSE IF c = "U+1F600" THEN 4
    ELSE Len(c)

RECURSIVE StringLength(_)
StringLength(t) == IF t = <<>> THEN 0 ELSE CodeUnits(Head(t)) + StringLength(Tail(t))

RECURSIVE ByteLength(_)
ByteLength(t) == IF t = <<>> THEN 0 ELSE Utf8Bytes(Head(t)) + ByteLength(Tail(t))

\* JSON.stringify of a string: quoted, with double quote and backslash escaped
RECURSIVE JsonEscaped(_)
JsonEscaped(t) ==
    IF t = <<>> THEN <<>>
    ELSE (IF Head(t) \in {QUOTE, BACKSLASH} THEN <<BACKSLASH, Head(t)>> ELSE <<Head(t)>>)
            \o JsonEscaped(Tail(t))

JsonString(t) == <<QUOTE>> \o JsonEscaped(t) \o <<QUOTE>>

RECURSIVE JsonStrings(_)
JsonStrings(list) ==
    IF list = <<>> THEN <<>>
    ELSE JsonString(Head(list))
            \o (IF Tail(list) = <<>> THEN <<>> ELSE <<COMMA>>)
            \o JsonStrings(Tail(list))

\* send-to-readwise.js:42, JSON.stringify(payload): the members in the order
\* of the object literal
Stringify(p) ==
    <<"{\"url\":">> \o JsonString(p.url)
        \o <<",\"html\":">> \o JsonString(p.html)
        \o <<",\"should_clean_html\":true,\"location\":\"feed\",\"tags\":[">>
        \o JsonStrings(p.tags)
        \o <<"],\"notes\":">> \o JsonString(p.notes) \o <<"}">>

NoRequest == [auth |-> <<>>, contentLength |-> 0, data |-> <<>>, bytesWritten |-> 0]

\* the text console.log prints for result.url
UrlOfResult(b) == IF b = BodyUrl THEN <<"str:u">> ELSE <<"undefined">>

\* the values of the tags argument tried
SendTagArgs == {<<>>, <<"a", ",", " ", "b">>}

\* the values of the title argument tried
SendTitleArgs == {<<>>, <<"G">>}

\* String.prototype.trim, for spaces
RECURSIVE TrimLeft(_)
TrimLeft(t) == IF t # <<>> /\ Head(t) = SPACE THEN TrimLeft(Tail(t)) ELSE t

RECURSIVE TrimRight(_)
TrimRight(t) ==
    IF t # <<>> /\ t[Len(t)] = SPACE THEN TrimRight(SubSeq(t, 1, Len(t) - 1)) ELSE t

Trim(t) == TrimRight(TrimLeft(t))

\* send-to-readwise.js:38, tags.split(',').map(t => t.trim())
SplitTrim(t) ==
    LET pieces == SplitOnCommas(t)
    IN  [i \in 1..Len(pieces) |-> Trim(pieces[i])]

\* a tag, or the start of one, where [^<] does not match
IsMarkup(tok) == tok \in {"<", "<title>", "</title>", "<p>", "</p>"}

\* send-to-readwise.js:30, /<title>([^<]+)<\/title>/: group 1 of the first match
TitleOfHtml(text) ==
    LET hits == {i \in 1..Len(text) :
                    /\ text[i] = "<title>"
                    /\ \E j \in (i + 2)..Len(text) :
                        /\ text[j] = "</title>"
                        /\ \A k \in (i + 1)..(j - 1) : ~IsMarkup(text[k])}
    IN  IF hits = {} THEN <<>>
        ELSE LET i == CHOOSE h \in hits : \A g \in hits : h <= g
                 j == CHOOSE e \in (i + 2)..Len(text) :
                        /\ text[e] = "</title>"
                        /\ \A k \in (i + 1)..(e - 1) : ~IsMarkup(text[k])
             IN  SubSeq(text, i + 1, j - 1)

\* send-to-readwise.js:34
BlobUrlOf(htmlFile) ==
    <<"https://github.com/jrellegood/sparky-research/blob/main/">> \o htmlFile

\* the responses tried
ResponseStatuses == {200, 201, 401, 500}

NoResponse == [status |-> 0, body |-> <<>>]

IsJsonString(tok) == tok \in {"str:url", "str:u", "str:detail", "str:Invalid token."}

\* JSON.parse on the bodies tried: a string, null, or an object of at most one
\* member; anything else throws
JsonParse(toks) ==
    IF toks = <<"null">> THEN [ok |-> TRUE, null |-> TRUE]
    ELSE IF Len(toks) = 1 /\ IsJsonString(toks[1]) THEN [ok |-> TRUE, null |-> FALSE]
    ELSE IF toks = <<"{", "}">> THEN [ok |-> TRUE, null |-> FALSE]
    ELSE IF /\ Len(toks) = 5
            /\ toks[1] = "{"
            /\ IsJsonString(toks[2])
            /\ toks[3] = ":"
            /\ (IsJsonString(toks[4]) \/ toks[4] = "null")
            /\ toks[5] = "}"
         THEN [ok |-> TRUE, null |-> FALSE]
    ELSE [ok |-> FALSE, null |-> FALSE]

\* send-to-readwise.js:64
SuccessStatus(st) == st = 200 \/ st = 201

SendInit ==
    /\ PublishIdle
    /\ ConvIdle
    /\ \E n \in 0..MaxArgs, t \in SendTitleArgs, g \in SendTagArgs :
        sArgv = [i \in 1..n |-> IF i = 1 THEN PathHtml
                                ELSE IF i = 2 THEN t
                                ELSE IF i = 3 THEN g ELSE ArgWord(i)]
    /\ token \in Tokens
    /\ htmlDisk \in {NoFile, File(HtmlWithTitle), File(HtmlNoTitle), File(HtmlAccented)}
    /\ sPc = "ready"
    /\ sExit = 0
    /\ sOut = {}
    /\ sTitle = <<>>
    /\ sTags = <<>>
    /\ sNotes = <<>>
    /\ htmlContent = NoFile
    /\ finalTitle = <<>>
    /\ payload = <<>>
    /\ requests = 0
    /\ response = NoResponse
    /\ sConsole = {}
    /\ sRequest = NoRequest

\* send-to-readwise.js:10-85, the synchronous part of the script
SendMain ==
    /\ sPc = "ready"
    /\ IF Len(sArgv) < 1
       THEN /\ sOut' = sOut \cup {"usage"}
            /\ sPc' = "exited"
            /\ sExit' = 1
            /\ UNCHANGED <<sTitle, sTags, sNotes, htmlContent, finalTitle, payload,
                           requests, sConsole, sRequest>>
       ELSE /\ sTitle' = OrDefault(SArg(2), <<>>)
            /\ sTags' = OrDefault(SArg(3), SendDefaultTags)
            /\ sNotes' = OrDefault(SArg(4), <<>>)
            /\ IF TokenFalsy(token)
               THEN /\ sOut' = sOut \cup {"token-not-set"}
                    /\ sPc' = "exited"
                    /\ sExit' = 1
                    /\ UNCHANGED <<htmlContent, finalTitle, payload, requests,
                                   sConsole, sRequest>>
               ELSE \E readable \in BOOLEAN :
                    IF ~htmlDisk.exists \/ ~readable
                    THEN /\ sOut' = sOut \cup {"error"}
                         /\ sConsole' = sConsole \cup {SArg(1)}
                         /\ sPc' = "exited"
                         /\ sExit' = 1
                         /\ UNCHANGED <<htmlContent, finalTitle, payload, requests,
                                        sRequest>>
                    ELSE LET found == TitleOfHtml(htmlDisk.lines)
                         IN  /\ htmlContent' = htmlDisk
                             /\ finalTitle' =
                                  OrDefault(sTitle', IF found # <<>> THEN found ELSE SArg(1))
                             /\ payload' = [url |-> BlobUrlOf(SArg(1)),
                                            html |-> htmlDisk.lines,
                                            should_clean_html |-> TRUE,
                                            location |-> "feed",
                                            tags |-> SplitTrim(sTags'),
                                            notes |-> sNotes']
                             /\ sRequest' =
                                  LET data == Stringify(payload')
                                  IN  [auth |-> <<"Token ">> \o token.value,
                                       contentLength |-> StringLength(data),
                                       data |-> data,
                                       bytesWritten |-> ByteLength(data)]
                             /\ requests' = requests + 1
                             /\ sPc' = "waiting"
                             /\ UNCHANGED <<sOut, sExit, sConsole>>
    /\ UNCHANGED <<sArgv, token, htmlDisk, response>>
    /\ UNCHANGED <<publishVars, convVars>>

\* the handler printing the request headers with an error response
OnResponseEndPrintingHeaders ==
    /\ sPc = "waiting"
    /\ \E st \in ResponseStatuses, b \in ResponseBodies :
        /\ response' = [status |-> st, body |-> b]
        /\ IF SuccessStatus(st)
           THEN LET result == JsonParse(b)
                IN  IF result.ok /\ ~result.null
                    THEN /\ sOut' = sOut \cup {"sent"}
                         /\ sConsole' = sConsole \cup {UrlOfResult(b)}
                         /\ sExit' = 0
                    ELSE \* JSON.parse or result.url throws in the callback
                         /\ sOut' = sOut \cup {"uncaught-exception"}
                         /\ sConsole' = sConsole \cup {b}
                         /\ sExit' = 1
           ELSE /\ sOut' = sOut \cup {"error-status"}
                /\ sConsole' = sConsole \cup {<<ToString(st)>> \o b, sRequest.auth}
                /\ sExit' = 1
    /\ sPc' = "exited"
    /\ UNCHANGED <<sArgv, token, htmlDisk, sTitle, sTags, sNotes, htmlContent,
                   finalTitle, payload, requests, sRequest>>
    /\ UNCHANGED <<publishVars, convVars>>

\* send-to-readwise.js:63-71, the response has ended
OnResponseEnd ==
    /\ sPc = "waiting"
    /\ \E st \in ResponseStatuses, b \in ResponseBodies :
        /\ response' = [status |-> st, body |-> b]
        /\ IF SuccessStatus(st)
           THEN LET result == JsonParse(b)
                IN  IF result.ok /\ ~result.null
                    THEN /\ sOut' = sOut \cup {"sent"}
                         /\ sConsole' = sConsole \cup {UrlOfResult(b)}
                         /\ sExit' = 0
                    ELSE \* JSON.parse or result.url throws in the callback
                         /\ sOut' = sOut \cup {"uncaught-exception"}
                         /\ sConsole' = sConsole \cup {b}
                         /\ sExit' = 1
           ELSE /\ sOut' = sOut \cup {"error-status"}
                /\ sConsole' = sConsole \cup {<<ToString(st)>> \o b}
                /\ sExit' = 1
    /\ sPc' = "exited"
    /\ UNCHANGED <<sArgv, token, htmlDisk, sTitle, sTags, sNotes, htmlContent,
                   finalTitle, payload, requests, sRequest>>
    /\ UNCHANGED <<publishVars, convVars>>

\* send-to-readwise.js:74-77, the request failed
OnRequestError ==
    /\ sPc = "waiting"
    /\ sOut' = sOut \cup {"request-failed"}
    /\ sConsole' = sConsole \cup {<<"ECONNREFUSED">>}
    /\ sExit' = 1
    /\ sPc' = "exited"
    /\ UNCHANGED <<sArgv, token, htmlDisk, sTitle, sTags, sNotes, htmlContent,
                   finalTitle, payload, requests, response, sRequest>>
    /\ UNCHANGED <<publishVars, convVars>>

SendNext ==
    \/ SendMain
    \/ OnResponseEnd
    \/ OnRequestError

SendSpec == SendInit /\ [][SendNext]_vars

\* either script is run
AllInit == Init \/ SendInit

AllNext == Next \/ SendNext

AllSpec == AllInit /\ [][AllNext]_vars

---------------------------------------------------------------------------
(* The claims about send-to-readwise.js *)

\* C17: without a file argument, with the token unset or empty, or with a file
\* that cannot be read, the run exits with a non-zero code and sends no request.
C17_InvalidRunSendsNothing ==
    /\ (Len(sArgv) < 1 \/ ~token.set \/ token.value = <<>> \/ ~htmlDisk.exists)
          => /\ requests = 0
             /\ sPc \in {"ready", "exited"}
             /\ sPc = "exited" => sExit # 0
    /\ (sPc = "exited" /\ ~htmlContent.exists) => (requests = 0 /\ sExit # 0)

C17_Witness ==
    /\ sPc = "exited"
    /\ Len(sArgv) >= 1
    /\ token = TokenEmpty
    /\ htmlDisk.exists
    /\ sExit = 1

\* C18, as stated: a run that passed validation has sent exactly one POST and
\* ends with code 0 exactly when the response status is 200 or 201, whatever
\* the response body; otherwise with code 1.
C18_ExitZeroIffSuccessStatus ==
    (sPc = "exited" /\ htmlContent.exists)
        => /\ requests = 1
           /\ sExit \in {0, 1}
           /\ sExit = 0 <=> response.status \in {200, 201}

\* C18, what the code does: such a run ends with code 0 exactly when the
\* response status is 200 or 201 and the response body is JSON text of a value
\* other than null; otherwise with code 1.
C18_ExitZeroIffSuccessAndJson ==
    (sPc = "exited" /\ htmlContent.exists)
        => /\ requests = 1
           /\ sExit \in {0, 1}
           /\ sExit = 0 <=> /\ response.status \in {200, 201}
                            /\ response.body \in {BodyUrl, BodyEmptyObject, BodyError}

\* a success status with a body that is no JSON text
C18_SuccessStatusBadBody ==
    /\ sPc = "exited"
    /\ requests = 1
    /\ response = [status |-> 200, body |-> BodyHtml]
    /\ sExit = 1

\* C19, as stated: the defaults for omitted tags and notes are those of
\* publish.sh.
C19_SameDefaultsAsPublish ==
    (sPc # "ready" /\ Len(sArgv) >= 1)
        => /\ SArg(3) = <<>> => sTags = DefaultIfEmpty(<<>>, DefaultTags)
           /\ SArg(4) = <<>> => sNotes = DefaultIfEmpty(<<>>, <<>>)

\* C19, amended: for omitted notes both scripts use the empty string, but for
\* omitted tags send-to-readwise.js uses sparky-research where publish.sh uses
\* sparky; an omitted title is the empty string.
C19_DefaultsOfSend ==
    (sPc # "ready" /\ Len(sArgv) >= 1)
        => /\ SArg(3) = <<>>
                => /\ sTags = DefaultTags \o <<"-", "r", "e", "s", "e", "a", "r", "c", "h">>
                   /\ sTags # DefaultIfEmpty(<<>>, DefaultTags)
           /\ SArg(4) = <<>> => sNotes = DefaultIfEmpty(<<>>, <<>>)
           /\ SArg(2) = <<>> => sTitle = <<>>

C19_Witness ==
    /\ sPc = "waiting"
    /\ Len(sArgv) = 1
    /\ sTags = SendDefaultTags
    /\ payload.tags = <<SendDefaultTags>>

---------------------------------------------------------------------------
(* The claim about the push of publish.sh *)

\* C20: once git push has succeeded, the pushed commit stays on the remote in
\* every later state of the run: no later step, failed or not, changes the
\* remote or the pushed commit.
C20_PushIsNeverUndone ==
    /\ [](pushed => remote = head)
    /\ [][pushed => (pushed' /\ remote' = remote /\ head' = head)]_vars

C20_Witness ==
    /\ pushed
    /\ pc = "exited"
    /\ exitCode # 0
    /\ "post" \in failed
    /\ remote = head
    /\ remote # EmptyTree

---------------------------------------------------------------------------
(* The claims about the poll loop, the URL and the token of publish.sh *)

\* the poll loop is over and the check that follows it has been made
PastTimeoutCheck == polls > 0 /\ pc \in {"post", "report", "exited"}

\* C21: the poll loop stops at the first attempt that returns HTTP 200 and no
\* poll request follows it; once the loop is over the timeout warning has been
\* printed exactly when no attempt returned 200; after an attempt with any
\* other outcome the loop goes on as long as attempts are left.
C21_PollStopsAtFirst200 ==
    /\ (polls > 0 /\ HTTP_CODE = "200") => (pc # "poll" /\ ATTEMPT = polls - 1)
    /\ PastTimeoutCheck => ("timeout-warning" \in out <=> HTTP_CODE # "200")
    /\ (polls > 0 /\ HTTP_CODE # "200" /\ polls < MAX_ATTEMPTS) => pc = "poll"

\* the same for the runs in which every curl of the loop returned with status 0
C21_WhenCurlReturns ==
    "poll" \notin failed
        => /\ (polls > 0 /\ HTTP_CODE = "200") => (pc # "poll" /\ ATTEMPT = polls - 1)
           /\ PastTimeoutCheck => ("timeout-warning" \in out <=> HTTP_CODE # "200")
           /\ (polls > 0 /\ HTTP_CODE # "200" /\ polls < MAX_ATTEMPTS) => pc = "poll"

\* a 200 on the 60th attempt: no warning
C21_LastAttempt200 ==
    /\ polls = MAX_ATTEMPTS
    /\ HTTP_CODE = "200"
    /\ pc = "exited"
    /\ "timeout-warning" \notin out
    /\ "published" \in out

C23_TokenNotCheckedUpFront ==
    ~token.set
        => /\ (pc = "exited" /\ posts = 0)
                => ("usage" \in out \/ "not-found" \in out \/ failed # {})
           /\ out \subseteq {"usage", "not-found", "converting", "converted",
                             "convert-error", "committing", "pushing", "waiting",
                             "page-is-live", ".", "timeout-warning", "sending",
                             "published"}
           /\ posts > 0 => authHeader = <<"Token ">>

C23_Witness ==
    /\ ~token.set
    /\ hist = StepOrder
    /\ failed = {}
    /\ pushed
    /\ polls > 0
    /\ posts = 1
    /\ postStatus = 401
    /\ authHeader = <<"Token ">>

---------------------------------------------------------------------------
(* The claim about the token on the console *)

\* v occurs in d as a run of consecutive elements
Contains(d, v) ==
    \E i \in 1..(Len(d) - Len(v) + 1) : SubSeq(d, i, i + Len(v) - 1) = v

\* the values a run of publish.sh can print, given its arguments and the
\* responses it can get
PublishPrintable ==
    {Arg(1), ReplaceMdExt(Arg(1)), Arg(2), HTML_URL} \cup {BodyUrl, BodyError, BodyNone}

\* the same for send-to-readwise.js
SendPrintable ==
    {SArg(1), <<"ECONNREFUSED">>, <<"str:u">>, <<"undefined">>}
        \cup ResponseBodies
        \cup {<<c>> \o b : c \in {"401", "500"}, b \in ResponseBodies}

---------------------------------------------------------------------------
(* The claim about the default output path of convert-to-html.js *)

\* C25: after a successful run with no output argument, the output path
\* differs from the input path and ends in .html, and the input file holds
\* what the run read from it.
C25_DefaultOutputNotInput ==
    (Len(cArgv) = 1 /\ cPc = "exited" /\ cExit = 0)
        => LET o == OutputFileOf(cArgv)
           IN  /\ o # cArgv[1]
               /\ EndsWith(o, DotHtml)
               /\ cFs[cArgv[1]] = markdown

\* the same for an input path that ends in .md
C25_MdInputKept ==
    (Len(cArgv) = 1 /\ EndsWith(cArgv[1], DotMd) /\ cPc = "exited" /\ cExit = 0)
        => LET o == OutputFileOf(cArgv)
           IN  /\ o # cArgv[1]
               /\ EndsWith(o, DotHtml)
               /\ cFs[cArgv[1]] = markdown

\* an input without the .md extension, overwritten by the document
C25_InputOverwritten ==
    /\ cArgv = <<PathNoExt>>
    /\ cPc = "exited"
    /\ cExit = 0
    /\ markdown.lines = <<LineText>>
    /\ cFs[PathNoExt].lines = fullHtml

---------------------------------------------------------------------------
(* The claim about the JSON body of publish.sh *)

\* the text between double quotes is a JSON string, and nothing follows it
ParseJsonString(text) ==
    LET quoted == <<QUOTE>> \o text \o <<QUOTE>>
        r == JsonStringFrom(quoted, 2, <<>>)
    IN  [ok |-> r.ok /\ r.next = Len(quoted) + 1, val |-> r.val]

Plain(t) == \A i \in 1..Len(t) : t[i] \notin {QUOTE, BACKSLASH}

\* C26: the POSTed body is well-formed JSON: the text of every slot is a JSON
\* value, and the title and notes strings read back as the arguments $2 and $4.
C26_BodyIsJsonOfArguments ==
    posts > 0
        => /\ ParseJsonString(body.url).ok
           /\ ParseJsonStringArray(body.tags).ok
           /\ ParseJsonString(body.title) = [ok |-> TRUE, val |-> Arg(2)]
           /\ ParseJsonString(body.notes) = [ok |-> TRUE, val |-> Arg(4)]

\* the same for arguments that hold no double quote and no backslash
C26_PlainArguments ==
    (posts > 0 /\ Plain(Arg(2)) /\ Plain(Arg(3)) /\ Plain(Arg(4)))
        => /\ ParseJsonString(body.url).ok
           /\ ParseJsonStringArray(body.tags).ok
           /\ ParseJsonString(body.title) = [ok |-> TRUE, val |-> Arg(2)]
           /\ ParseJsonString(body.notes) = [ok |-> TRUE, val |-> Arg(4)]

\* a title that ends in a double quote, put into the body as it is
C26_QuoteInTitle ==
    /\ posts = 1
    /\ Arg(2) = <<"w", QUOTE>>
    /\ body.title = <<"w", QUOTE>>
    /\ ~ParseJsonString(body.title).ok

---------------------------------------------------------------------------
(* The claims about the request of send-to-readwise.js *)

\* the title argument if not empty, else the text of the title element of the
\* file, else the path of the file
EffectiveTitle ==
    IF SArg(2) # <<>> THEN SArg(2)
    ELSE IF htmlContent = File(HtmlWithTitle) THEN <<"T">>
    ELSE SArg(1)

\* C27: the payload that is POSTed has a title member, and it holds the
\* effective title.
C27_TitleInPayload ==
    requests > 0
        => /\ finalTitle = EffectiveTitle
           /\ "title" \in DOMAIN payload
           /\ payload.title = finalTitle

\* the effective title is computed as the claim says
C27_FinalTitleComputed ==
    requests > 0 => finalTitle = EffectiveTitle

\* the title taken from the file, and a payload without it
C27_TitleDropped ==
    /\ requests = 1
    /\ SArg(2) = <<>>
    /\ finalTitle = <<"T">>
    /\ DOMAIN payload = {"url", "html", "should_clean_html", "location", "tags", "notes"}

\* C28: the Content-Length header equals the number of bytes of the body
\* written to the request.
C28_ContentLengthIsByteCount ==
    requests > 0
        => /\ sRequest.data = Stringify(payload)
           /\ sRequest.contentLength = sRequest.bytesWritten

\* the same for a file whose characters are all ASCII
C28_AsciiContent ==
    (requests > 0 /\ htmlContent \in {File(HtmlWithTitle), File(HtmlNoTitle)})
        => /\ sRequest.data = Stringify(payload)
           /\ sRequest.contentLength = sRequest.bytesWritten

\* a file with an accented letter and an emoji: the header is three short
C28_HeaderTooSmall ==
    /\ requests = 1
    /\ htmlContent = File(HtmlAccented)
    /\ sRequest.bytesWritten = sRequest.contentLength + 3

---------------------------------------------------------------------------
(* The claim about a second run of publish.sh *)

\* the start of a run on an article that is committed and pushed, with the
\* HTML file of docs/ rendered from it, and not changed since
AlreadyPublished ==
    /\ pc = "start"
    /\ Len(argv) >= 2
    /\ FileAt(head, Arg(1)) # Absent
    /\ FileAt(head, HtmlFileOf(Arg(1))) = Render(FileAt(head, Arg(1)))
    /\ FileAt(fs, Arg(1)) = FileAt(head, Arg(1))
    /\ FileAt(fs, HtmlFileOf(Arg(1))) = FileAt(head, HtmlFileOf(Arg(1)))
    /\ index = head
    /\ remote = head

\* no commit is made, nothing is pushed, polled or posted, and the run ends,
\* if it does, with a failure of the commit step or of one before it
NothingPublishedAgain ==
    /\ head = remote
    /\ ~pushed
    /\ polls = 0
    /\ posts = 0
    /\ pc \notin {"push", "poll", "timeoutcheck", "post", "report"}
    /\ pc = "exited" => /\ exitCode # 0
                        /\ failed # {}
                        /\ failed \subseteq {"render", "add", "commit"}

\* C29: a run on an article whose markdown and HTML are committed and
\* unchanged aborts at the commit step at the latest: it makes no commit,
\* pushes nothing and issues no POST.
C29_RerunAbortsAtCommit == AlreadyPublished => []NothingPublishedAgain

\* the same for an article whose path ends in .md
C29_MdRerunAborts ==
    (AlreadyPublished /\ EndsWith(Arg(1), DotMd)) => []NothingPublishedAgain

\* a second run on a.t that went through to the POST
C29_SecondPost ==
    /\ Arg(1) = PathNoExt
    /\ FileAt(remote, PathNoExt) = Render(Markdown("v2"))
    /\ FileAt(remote, HtmlFileOf(PathNoExt)) = Render(Markdown("v2"))
    /\ FileAt(fs, PathNoExt) = Render(Markdown("v2"))
    /\ pushed
    /\ posts = 1

====
